---- MODULE Spec2Model ----
(***************************************************************************)
(* A model of menu_rs (src/src/lib.rs): a Menu is built from an ordered    *)
(* list of MenuOption, optionally given a title, and consumed by show(),   *)
(* which hides the cursor, draws the menu, runs the key-driven navigation  *)
(* loop, clears the screen and runs the action of the selected option.     *)
(*                                                                         *)
(* The terminal (console::Term) is an external collaborator; the model     *)
(* records every call the code makes on it, in order, in `stdout`.         *)
(***************************************************************************)
EXTENDS Integers, Sequences, FiniteSets, TLC

\* ------------------------------------------------------------------ bounds

\* Largest number of options a menu is built with.
MaxOptions == 3

\* Largest number of keys read that keep the loop running.
MaxKeys == 5

\* ----------------------------------------------------------------- state

VARIABLES
  pc,                 \* where show() stands
  overflow_checks,    \* build profile: are integer overflow checks on
  title,              \* Menu.title
  options,            \* Menu.options
  selected_option,    \* Menu.selected_option
  options_limit_num,  \* the local of menu_navigation
  stdout,             \* the calls made on the terminal so far, in order
  reads,              \* the results of read_key so far, with the index
                      \* before and after each was handled
  calls               \* the options whose func was called, in order

vars ==
  <<pc, overflow_checks, title, options, selected_option, options_limit_num,
    stdout, reads, calls>>

\* ------------------------------------------------------------ data model

\* Option<String>: None is the empty tuple, Some(s) the one-element tuple.
None == <<>>

Some(s) == <<s>>

\* MenuOption::new: the label is stored, no hint. The boxed closure `func`
\* is identified by the option's position in the menu (see `calls`).
MenuOption_new(label) == [label |-> label, hint |-> None]

\* MenuOption::hint: builder, sets the hint text.
MenuOption_hint(option, text) == [option EXCEPT !.hint = Some(text)]

\* The option lists the model builds menus from: n options labelled
\* "Option 1" .. "Option n", the odd ones carrying a hint (as in the crate
\* example, where only some options have one).
OptionList(n) ==
  [i \in 1..n |->
     IF i % 2 = 1
       THEN MenuOption_hint(MenuOption_new("Option " \o ToString(i)),
                            "Hint " \o ToString(i))
       ELSE MenuOption_new("Option " \o ToString(i))]

Titles == {"Title example"}

\* ------------------------------------------------------------- terminal

\* One call on the Term (or one println!), as recorded in `stdout`.
TermCall(name) ==
  [op |-> name, fmt |-> "", style |-> "", text |-> "", hint |-> ""]

\* stdout.write_line of a formatted, styled line.
WriteLine(fmt, style, text, hint) ==
  [op |-> "write_line", fmt |-> fmt, style |-> style, text |-> text, hint |-> hint]

\* The selected row looked up as if the index counted rows from 1.
IsSelectedRow_OneBased(i, selected) == selected >= 0 /\ i + 1 = selected

\* `i == self.selected_option as usize` for a row position i >= 0: a
\* negative i32 casts to a usize above every row position, so it matches
\* no row.
IsSelectedRow(i, selected) == selected >= 0 /\ i = selected

\* The title line of draw_menu: nothing for None, one bold indented line
\* for Some(text).
TitleLines(t) ==
  IF t = None THEN <<>> ELSE <<WriteLine("title", "bold", t[1], "")>>

\* The line draw_menu writes for the option at position i (0-based).
OptionLine(opts, i, selected) ==
  WriteLine("row",
            IF IsSelectedRow(i, selected) THEN "selected" ELSE "normal",
            opts[i + 1].label,
            IF opts[i + 1].hint = None THEN "" ELSE opts[i + 1].hint[1])

\* The lines of all options, in the order of the list.
OptionLines(opts, selected) ==
  [k \in 1..Len(opts) |-> OptionLine(opts, k - 1, selected)]

\* A draw whose title line carries a count of the keys read so far: state
\* outside the menu leaking into the frame.
draw_menu_Counting(t, opts, selected) ==
  <<TermCall("clear_screen"),
    WriteLine("title", "bold", "Redraw " \o ToString(Len(reads)), "")>>
    \o OptionLines(opts, selected) \o <<TermCall("flush")>>

\* Menu::draw_menu: clear, title, one line per option, flush.
draw_menu(t, opts, selected) ==
  <<TermCall("clear_screen")>> \o TitleLines(t) \o OptionLines(opts, selected)
    \o <<TermCall("flush")>>

\* ------------------------------------------------------------ navigation

\* The boundary computed with a saturating subtraction.
WrapBoundary_Saturating(len) == IF len >= 1 THEN len - 1 ELSE 0

\* (self.options.len() - 1) as i32 for a non-empty list; for the empty
\* list the unsigned subtraction wraps to usize::MAX when overflow checks
\* are off, and the cast to i32 keeps the low 32 bits: -1.
WrapBoundary(len) == IF len >= 1 THEN len - 1 ELSE -1

\* ArrowUp without the wrap at the low end.
ArrowUpIndex_NoWrap(selected, limit) ==
  IF selected = 0 THEN 0 ELSE selected - 1

\* Key::ArrowUp
ArrowUpIndex(selected, limit) ==
  IF selected = 0 THEN limit ELSE selected - 1

\* ArrowDown without the wrap at the high end.
ArrowDownIndex_NoWrap(selected, limit) == selected + 1

\* ArrowDown wrapping one position early.
ArrowDownIndex_EarlyWrap(selected, limit) ==
  IF selected >= limit - 1 THEN 0 ELSE selected + 1

\* Key::ArrowDown
ArrowDownIndex(selected, limit) ==
  IF selected = limit THEN 0 ELSE selected + 1

\* The index Key::Escape leaves in selected_option.
EscapeIndex == -1

\* ------------------------------------------------------------ operations

\* Menu::new over one of the option lists; options_limit_num is not yet
\* computed (it is written before it is read).
Init ==
  /\ pc = "new"
  /\ overflow_checks \in BOOLEAN
  /\ title = None
  /\ \E n \in 0..MaxOptions : options = OptionList(n)
  /\ selected_option = 0
  /\ options_limit_num = 0
  /\ stdout = <<>>
  /\ reads = <<>>
  /\ calls = <<>>

\* Menu::title: builder, called before show().
Menu_title ==
  /\ pc = "new"
  /\ title = None
  /\ \E text \in Titles : title' = Some(text)
  /\ UNCHANGED <<pc, overflow_checks, options, selected_option,
                 options_limit_num, stdout, reads, calls>>

\* show(), up to the call of menu_navigation: hide the cursor, clear the
\* screen, draw the menu.
ShowBegin ==
  /\ pc = "new"
  /\ stdout' = stdout \o <<TermCall("hide_cursor"), TermCall("clear_screen")>>
                 \o draw_menu(title, options, selected_option)
  /\ pc' = "navigation"
  /\ UNCHANGED <<overflow_checks, title, options, selected_option,
                 options_limit_num, reads, calls>>

\* menu_navigation, up to the loop: the wrap boundary. With overflow
\* checks on, the subtraction on an empty list panics.
NavigationBegin ==
  /\ pc = "navigation"
  /\ IF Len(options) = 0 /\ overflow_checks
       THEN /\ pc' = "panicked"
            /\ UNCHANGED options_limit_num
       ELSE /\ pc' = "read_key"
            /\ options_limit_num' = WrapBoundary(Len(options))
  /\ UNCHANGED <<overflow_checks, title, options, selected_option, stdout,
                 reads, calls>>

\* The record of one read_key result and what handling it did to the index.
Read(key, to) == [key |-> key, from |-> selected_option, to |-> to]

\* The redraw done before the index is updated: the frame shows the index
\* the key was read at.
Stay_DrawsStaleIndex(key, to) ==
  /\ pc = "read_key"
  /\ Len(reads) < MaxKeys
  /\ selected_option' = to
  /\ reads' = Append(reads, Read(key, to))
  /\ stdout' = stdout \o draw_menu(title, options, selected_option)
  /\ UNCHANGED <<pc, overflow_checks, title, options, options_limit_num, calls>>

\* A key that keeps the loop running: the index is updated and the menu
\* redrawn.
Stay(key, to) ==
  /\ pc = "read_key"
  /\ Len(reads) < MaxKeys
  /\ selected_option' = to
  /\ reads' = Append(reads, Read(key, to))
  /\ stdout' = stdout \o draw_menu(title, options, to)
  /\ UNCHANGED <<pc, overflow_checks, title, options, options_limit_num, calls>>

ArrowUp == Stay("ArrowUp", ArrowUpIndex(selected_option, options_limit_num))

ArrowDown == Stay("ArrowDown", ArrowDownIndex(selected_option, options_limit_num))

\* Another key handled as if it were ArrowDown.
OtherKey_Moves ==
  Stay("Other", ArrowDownIndex(selected_option, options_limit_num))

\* Another key ending the loop as Enter does.
OtherKey_Returns ==
  /\ pc = "read_key"
  /\ Len(reads) < MaxKeys
  /\ reads' = Append(reads, Read("Other", selected_option))
  /\ stdout' = Append(stdout, TermCall("show_cursor"))
  /\ pc' = "cleanup"
  /\ UNCHANGED <<overflow_checks, title, options, selected_option,
                 options_limit_num, calls>>

\* Any other key: the `_ => {}` arm.
OtherKey == Stay("Other", selected_option)

\* Escape without the sentinel assignment.
Escape_KeepsIndex ==
  /\ pc = "read_key"
  /\ reads' = Append(reads, Read("Escape", selected_option))
  /\ stdout' = Append(stdout, TermCall("show_cursor"))
  /\ pc' = "cleanup"
  /\ UNCHANGED <<overflow_checks, title, options, selected_option,
                 options_limit_num, calls>>

\* Key::Escape: the sentinel, show the cursor, return.
Escape ==
  /\ pc = "read_key"
  /\ selected_option' = EscapeIndex
  /\ reads' = Append(reads, Read("Escape", EscapeIndex))
  /\ stdout' = Append(stdout, TermCall("show_cursor"))
  /\ pc' = "cleanup"
  /\ UNCHANGED <<overflow_checks, title, options, options_limit_num, calls>>

\* Enter falling through to the redraw at the end of the loop body before
\* the loop is left.
Enter_Redraws ==
  /\ pc = "read_key"
  /\ reads' = Append(reads, Read("Enter", selected_option))
  /\ stdout' = Append(stdout, TermCall("show_cursor"))
                 \o draw_menu(title, options, selected_option)
  /\ pc' = "cleanup"
  /\ UNCHANGED <<overflow_checks, title, options, selected_option,
                 options_limit_num, calls>>

\* Enter calling the func of the selected option from inside the loop.
Enter_CallsAction ==
  /\ pc = "read_key"
  /\ reads' = Append(reads, Read("Enter", selected_option))
  /\ stdout' = Append(stdout, TermCall("show_cursor"))
  /\ calls' = Append(calls, selected_option)
  /\ pc' = "cleanup"
  /\ UNCHANGED <<overflow_checks, title, options, selected_option,
                 options_limit_num>>

\* Key::Enter: show the cursor, return.
Enter ==
  /\ pc = "read_key"
  /\ reads' = Append(reads, Read("Enter", selected_option))
  /\ stdout' = Append(stdout, TermCall("show_cursor"))
  /\ pc' = "cleanup"
  /\ UNCHANGED <<overflow_checks, title, options, selected_option,
                 options_limit_num, calls>>

\* read_key returned Err: print the message, return.
ReadError ==
  /\ pc = "read_key"
  /\ reads' = Append(reads, Read("Err", selected_option))
  /\ stdout' = Append(stdout, TermCall("println"))
  /\ pc' = "cleanup"
  /\ UNCHANGED <<overflow_checks, title, options, selected_option,
                 options_limit_num, calls>>

\* The cleanup flushing without clearing the screen first.
Cleanup_NoClear ==
  /\ pc = "cleanup"
  /\ stdout' = Append(stdout, TermCall("flush"))
  /\ pc' = "dispatch"
  /\ UNCHANGED <<overflow_checks, title, options, selected_option,
                 options_limit_num, reads, calls>>

\* show(), after menu_navigation returned: clear the screen and flush.
Cleanup ==
  /\ pc = "cleanup"
  /\ stdout' = stdout \o <<TermCall("clear_screen"), TermCall("flush")>>
  /\ pc' = "dispatch"
  /\ UNCHANGED <<overflow_checks, title, options, selected_option,
                 options_limit_num, reads, calls>>

\* The exit test taking the first option for the exit selection too.
IsExitSelection_OffByOne(selected) == selected <= 0

\* `self.selected_option == -1`: return on exit selection.
IsExitSelection(selected) == selected = -1

\* show(), the end: return on the sentinel, else index the options (a
\* panic when out of bounds) and call the option's func.
Dispatch ==
  /\ pc = "dispatch"
  /\ IF IsExitSelection(selected_option)
       THEN pc' = "done" /\ UNCHANGED calls
       ELSE IF selected_option >= 0 /\ selected_option < Len(options)
         THEN pc' = "done" /\ calls' = Append(calls, selected_option)
         ELSE pc' = "panicked" /\ UNCHANGED calls
  /\ UNCHANGED <<overflow_checks, title, options, selected_option,
                 options_limit_num, stdout, reads>>

Next ==
  \/ Menu_title
  \/ ShowBegin
  \/ NavigationBegin
  \/ ArrowUp
  \/ ArrowDown
  \/ OtherKey
  \/ Escape
  \/ Enter
  \/ ReadError
  \/ Cleanup
  \/ Dispatch

Spec == Init /\ [][Next]_vars

\* The program's own steps are taken once enabled (it is single-threaded
\* and blocks only in read_key); which key arrives, and whether one
\* arrives, is left to the user.
FairSpec ==
  Spec /\ WF_vars(ShowBegin) /\ WF_vars(NavigationBegin)
       /\ WF_vars(Cleanup) /\ WF_vars(Dispatch)

\* ---------------------------------------------------------- observations

\* The number of options of the menu.
N == Len(options)

\* The last read_key result, when there is one.
LastRead == reads[Len(reads)]

\* The navigation loop has ended, and by this key.
LoopEndedBy(key) == Len(reads) > 0 /\ LastRead.key = key

\* The keys that keep the loop running.
StayKeys == {"ArrowUp", "ArrowDown", "Other"}

\* show() has called menu_navigation and the loop has been entered.
LoopEntered == pc \notin {"new", "navigation"}

\* The cursor is hidden after the calls of log: a hide_cursor is followed
\* by no show_cursor.
CursorHidden(log) ==
  \E i \in 1..Len(log) :
    /\ log[i].op = "hide_cursor"
    /\ \A j \in (i + 1)..Len(log) : log[j].op # "show_cursor"

\* The calls of log end with show()'s cleanup: clear_screen, then flush.
EndsWithCleanup(log) ==
  /\ Len(log) >= 2
  /\ log[Len(log) - 1] = TermCall("clear_screen")
  /\ log[Len(log)] = TermCall("flush")

\* Every key of reads[from..to] is key.
AllKeys(from, to, key) == \A j \in from..to : reads[j].key = key

\* ------------------------------------------------------------------ claims

\* C1: for a menu of n >= 1 options, when the loop ended by Enter with the
\* index at i, no func other than that of option i is ever called, it is
\* called at most once, and when show() has returned it was called exactly
\* once.
C1_EnterInvokesSelected ==
  (N >= 1 /\ LoopEndedBy("Enter")) =>
    /\ calls \in {<<>>, <<LastRead.from>>}
    /\ pc # "panicked"
    /\ pc = "done" => calls = <<LastRead.from>>

\* C1 witness: show() has returned after Down, Down, Enter on three options
\* and the func of the last option was called.
C1_Witness ==
  /\ pc = "done"
  /\ N = 3
  /\ Len(reads) = 3
  /\ reads[1].key = "ArrowDown"
  /\ reads[2].key = "ArrowDown"
  /\ reads[3].key = "Enter"
  /\ calls = <<2>>

\* C2: once Escape is read, whatever the index and the keys before it, the
\* index is the sentinel, show() goes on to return (it does not panic), and
\* no func is called.
C2_EscapeCancels ==
  LoopEndedBy("Escape") =>
    /\ selected_option = EscapeIndex
    /\ pc \in {"cleanup", "dispatch", "done"}
    /\ calls = <<>>

\* C2 witness: show() has returned after Up (wrapping to the last of two
\* options) and Escape.
C2_Witness ==
  /\ pc = "done"
  /\ N = 2
  /\ Len(reads) = 2
  /\ reads[1].key = "ArrowUp"
  /\ reads[1].to = 1
  /\ reads[2].key = "Escape"
  /\ calls = <<>>

\* C3 (as claimed): when a key read fails, no func is called.
C3_ReadErrorInvokesNothing ==
  LoopEndedBy("Err") => calls = <<>>

\* C4 (as claimed): when show() has returned, the cursor is not hidden.
C4_CursorShownOnReturn ==
  pc = "done" => ~CursorHidden(stdout)

\* C5 (as claimed): when a func is called, the cursor has been shown again
\* and the last calls on the terminal were the final clear_screen and flush.
C5_InvokedAfterRelease ==
  calls # <<>> => ~CursorHidden(stdout) /\ EndsWithCleanup(stdout)

\* C6: for n >= 1, every ArrowUp read at index i in [0, n-1] leaves n-1 when
\* i = 0 and i-1 otherwise, and every ArrowDown leaves 0 when i = n-1 and i+1
\* otherwise; the index of the menu is what the last such key left.
C6_KeyTransition ==
  N >= 1 =>
    /\ \A j \in 1..Len(reads) :
         /\ reads[j].from \in 0..(N - 1)
         /\ reads[j].key = "ArrowUp" =>
              reads[j].to = IF reads[j].from = 0 THEN N - 1 ELSE reads[j].from - 1
         /\ reads[j].key = "ArrowDown" =>
              reads[j].to = IF reads[j].from = N - 1 THEN 0 ELSE reads[j].from + 1
    /\ (Len(reads) > 0 /\ LastRead.key \in {"ArrowUp", "ArrowDown"}) =>
         selected_option = LastRead.to

\* C6 witness: on three options both wraps have happened, Up from 0 to 2 and
\* Down from 2 to 0, and on a step without wrap the index is 1.
C6_Witness ==
  /\ N = 3
  /\ Len(reads) = 3
  /\ reads[1] = [key |-> "ArrowUp", from |-> 0, to |-> 2]
  /\ reads[2] = [key |-> "ArrowDown", from |-> 2, to |-> 0]
  /\ reads[3] = [key |-> "ArrowDown", from |-> 0, to |-> 1]
  /\ selected_option = 1

\* C7: for n >= 1, n ArrowDown keys in a row bring the index back to the one
\* they started from, and so do n ArrowUp keys in a row.
C7_FullCycle ==
  N >= 1 =>
    \A j \in 1..Len(reads) :
      \A key \in {"ArrowDown", "ArrowUp"} :
        (j + N - 1 <= Len(reads) /\ AllKeys(j, j + N - 1, key)) =>
          reads[j + N - 1].to = reads[j].from

\* C7 witness: on two options, starting from index 1, two Downs and then two
\* Ups have been read and the index is 1 again.
C7_Witness ==
  /\ N = 2
  /\ Len(reads) = 5
  /\ reads[1].to = 1
  /\ AllKeys(2, 3, "ArrowDown")
  /\ AllKeys(4, 5, "ArrowUp")
  /\ selected_option = 1

\* C8: for n >= 1 the index is a valid index or the sentinel; it is 0 before
\* the loop starts, a valid index while the loop reads keys, and the
\* sentinel only after Escape ended the loop.
C8_IndexOrSentinel ==
  N >= 1 =>
    /\ selected_option \in 0..(N - 1) \/ selected_option = EscapeIndex
    /\ ~LoopEntered => selected_option = 0
    /\ pc = "read_key" => selected_option \in 0..(N - 1)
    /\ selected_option = EscapeIndex => LoopEndedBy("Escape")

\* C8 witness: on three options the index has been at the last position and
\* is now the sentinel.
C8_Witness ==
  /\ N = 3
  /\ selected_option = EscapeIndex
  /\ \E j \in 1..Len(reads) : reads[j].to = 2

\* C9: a key other than ArrowUp, ArrowDown, Enter and Escape leaves the
\* index as it was, and after it the loop is reading keys again.
C9_OtherKeyIgnored ==
  /\ \A j \in 1..Len(reads) : reads[j].key = "Other" => reads[j].to = reads[j].from
  /\ LoopEndedBy("Other") => pc = "read_key" /\ selected_option = LastRead.from

\* C9 witness: another key was read while the index was 1, and the loop is
\* still reading keys with the index at 1.
C9_Witness ==
  /\ pc = "read_key"
  /\ LoopEndedBy("Other")
  /\ LastRead.from = 1
  /\ selected_option = 1

\* ArrowUp, ArrowDown and other keys are all that has been read.
OnlyStayKeys == \A j \in 1..Len(reads) : reads[j].key \in StayKeys

LastCalls(log, n) == SubSeq(log, Len(log) - n + 1, Len(log))

\* The calls of log end with the calls of frame.
EndsWith(log, frame) ==
  Len(log) >= Len(frame) /\ LastCalls(log, Len(frame)) = frame

\* The calls made on the terminal since the last show_cursor (all of them
\* when there is none).
SinceShowCursor(log) ==
  LET shown == {i \in 1..Len(log) : log[i].op = "show_cursor"}
      last == IF shown = {} THEN 0 ELSE CHOOSE i \in shown : \A k \in shown : k <= i
  IN  SubSeq(log, last + 1, Len(log))

\* C11: whenever the loop is about to read a key, the first read included,
\* the cursor is hidden and the calls on the terminal end with a complete,
\* flushed frame of the menu drawn with the current index.
C11_FrameCurrentAtRead ==
  pc = "read_key" =>
    /\ CursorHidden(stdout)
    /\ EndsWith(stdout, draw_menu(title, options, selected_option))
    /\ stdout[Len(stdout)].op = "flush"

\* C11 witness: on three options the loop is about to read its third key
\* with the index moved to 2.
C11_Witness ==
  /\ pc = "read_key"
  /\ N = 3
  /\ Len(reads) = 2
  /\ reads[1].to = 1
  /\ selected_option = 2

\* C12: once Enter or Escape has ended the loop, the calls on the terminal
\* after the show_cursor of that key are none until the cleanup and then
\* exactly its clear_screen and flush: no line is written, no frame drawn.
C12_NoDrawAfterEnd ==
  (LoopEndedBy("Enter") \/ LoopEndedBy("Escape")) =>
    /\ pc = "cleanup" => SinceShowCursor(stdout) = <<>>
    /\ pc # "cleanup" =>
         SinceShowCursor(stdout) = <<TermCall("clear_screen"), TermCall("flush")>>

\* C12 witness: show() has returned after a move and Enter on a titled menu.
C12_Witness ==
  /\ pc = "done"
  /\ title # None
  /\ N = 2
  /\ Len(reads) = 2
  /\ reads[1].key = "ArrowDown"
  /\ reads[2].key = "Enter"

\* The number of title lines of a frame of the menu.
TitleRows == IF title = None THEN 0 ELSE 1

\* The number of terminal calls of one frame: clear_screen, the title line,
\* one line per option, flush.
FrameLen == 2 + TitleRows + N

\* The reads that were followed by a redraw.
Redraws == {j \in 1..Len(reads) : reads[j].key \in StayKeys}

\* The number of frames drawn so far: the first one in show(), then one per
\* key that kept the loop running.
NumFrames == IF pc = "new" THEN 0 ELSE 1 + Cardinality(Redraws)

\* The calls of the k-th frame drawn: the frames follow the hide_cursor and
\* clear_screen of show(), one after the other.
FrameAt(k) == SubSeq(stdout, 2 + (k - 1) * FrameLen + 1, 2 + k * FrameLen)

\* The index the menu had when the k-th frame was drawn.
FrameIndex(k) == IF k = 1 THEN 0 ELSE reads[k - 1].to

\* The positions (from 0) of the option rows of frame f in the selected
\* style.
SelectedRows(f) ==
  {r \in 0..(N - 1) : f[2 + TitleRows + r].style = "selected"}

\* C13: for n >= 1, every frame drawn starts with clear_screen, then has the
\* title line when there is a title, then exactly n option rows carrying the
\* labels of the options in their construction order, then the flush; and
\* exactly one row is in the selected style, the one at the index the menu
\* had when the frame was drawn.
C13_FrameShape ==
  N >= 1 =>
    \A k \in 1..NumFrames :
      LET f == FrameAt(k) IN
        /\ Len(f) = FrameLen
        /\ f[1] = TermCall("clear_screen")
        /\ f[FrameLen] = TermCall("flush")
        /\ title # None =>
             f[2].op = "write_line" /\ f[2].fmt = "title" /\ f[2].text = title[1]
        /\ \A r \in 0..(N - 1) :
             /\ f[2 + TitleRows + r].op = "write_line"
             /\ f[2 + TitleRows + r].fmt = "row"
             /\ f[2 + TitleRows + r].text = options[r + 1].label
             /\ f[2 + TitleRows + r].style \in {"selected", "normal"}
        /\ SelectedRows(f) = {FrameIndex(k)}

\* C13 witness: a titled menu of three options has been drawn three times,
\* the last time with the index at the last row.
C13_Witness ==
  /\ pc = "read_key"
  /\ N = 3
  /\ title # None
  /\ NumFrames = 3
  /\ selected_option = 2
  /\ SelectedRows(FrameAt(3)) = {2}

\* C14: any two frames drawn at the same index are the same calls, whatever
\* was read and drawn in between; when the loop reads a key, the index is
\* what the last key handled left (0 before the first), so the draw after it
\* did not move it; and no step changes the options, or the title once
\* show() has started.
C14_DrawIdempotentReadOnly ==
  /\ [](/\ \A k1, k2 \in 1..NumFrames :
              FrameIndex(k1) = FrameIndex(k2) => FrameAt(k1) = FrameAt(k2)
        /\ pc = "read_key" =>
             selected_option = IF reads = <<>> THEN 0 ELSE LastRead.to)
  /\ [][options' = options /\ (pc # "new" => title' = title)]_vars

\* C14 witness: on a titled menu the third frame was drawn after a key that
\* left the index at 1, where the second frame was drawn too, and the two
\* frames are equal.
C14_Witness ==
  /\ pc = "read_key"
  /\ title # None
  /\ N >= 2
  /\ NumFrames = 3
  /\ reads[1].to = 1
  /\ reads[2].key = "Other"
  /\ FrameAt(3) = FrameAt(2)
  /\ FrameAt(2) # FrameAt(1)

\* C15: at most one func is called in a run, and when one has been called
\* the loop has ended (the last key read is not one that keeps it running)
\* and show() is past its cleanup, at its end.
C15_AtMostOneCallAfterLoop ==
  /\ Len(calls) <= 1
  /\ calls # <<>> =>
       /\ pc = "done"
       /\ Len(reads) > 0
       /\ LastRead.key \notin StayKeys

\* C15 witness: after three keys that kept the loop running and Enter, one
\* func has been called.
C15_Witness ==
  /\ pc = "done"
  /\ N = 3
  /\ Len(reads) = 4
  /\ LoopEndedBy("Enter")
  /\ calls = <<1>>

\* The lines on the screen after the calls of log: those written between
\* the last clear_screen before the last flush and that flush.
FlushedLines(log) ==
  LET flushes == {i \in 1..Len(log) : log[i].op = "flush"}
      flushed == IF flushes = {} THEN 0
                 ELSE CHOOSE i \in flushes : \A k \in flushes : k <= i
      clears  == {i \in 1..flushed : log[i].op = "clear_screen"}
      cleared == IF clears = {} THEN 0
                 ELSE CHOOSE i \in clears : \A k \in clears : k <= i
  IN  SelectSeq(SubSeq(log, cleared + 1, flushed), LAMBDA c : c.op = "write_line")

\* The last call the loop makes on each of its exit paths: show_cursor for
\* Enter and Escape, the println of the failed read.
ExitCalls == {TermCall("show_cursor"), TermCall("println")}

\* C16: once show() is past its cleanup, whichever way the loop ended, the
\* calls on the terminal end with the exit arm's call, then clear_screen,
\* then flush, and no line of a menu frame is left on the flushed screen;
\* no func is called before that.
C16_CleanupOnEveryExit ==
  /\ pc \in {"dispatch", "done"} =>
       /\ Len(reads) > 0 /\ LastRead.key \in {"Enter", "Escape", "Err"}
       /\ Len(stdout) >= 3
       /\ stdout[Len(stdout) - 2] \in ExitCalls
       /\ EndsWithCleanup(stdout)
       /\ FlushedLines(stdout) = <<>>
  /\ calls # <<>> => EndsWithCleanup(stdout)

\* C16 witness: show() has returned after a move and a failed key read, the
\* screen cleared and flushed after the frame of the move.
C16_Witness ==
  /\ pc = "done"
  /\ N = 2
  /\ Len(reads) = 2
  /\ reads[1].key = "ArrowDown"
  /\ LoopEndedBy("Err")
  /\ FlushedLines(stdout) = <<>>

\* C17: with no options, the subtraction that computes the wrap boundary
\* underflows when menu_navigation starts, before any key is read: with
\* overflow checks on, the run panics there with no key read; with them off,
\* the boundary the loop runs with is the wrapped value -1, which is no
\* index.
C17_EmptyListUnderflows ==
  (N = 0 /\ LoopEntered) =>
    /\ overflow_checks => pc = "panicked" /\ reads = <<>>
    /\ ~overflow_checks => options_limit_num = -1 /\ options_limit_num \notin 0..(N - 1)

\* C17 witness: an empty menu built without overflow checks is about to read
\* its first key with the wrapped boundary.
C17_Witness ==
  /\ N = 0
  /\ ~overflow_checks
  /\ pc = "read_key"
  /\ reads = <<>>
  /\ options_limit_num = -1

\* The number of reads of key so far.
KeyCount(key) == Cardinality({j \in 1..Len(reads) : reads[j].key = key})

\* C18: for n >= 1, when Enter ends the loop the index it confirms is the
\* number of ArrowDown keys read minus the number of ArrowUp keys read,
\* modulo n, whatever their order and the other keys in between; that is
\* the option whose func show() calls.
C18_ConfirmedIndexIsNetMoves ==
  (N >= 1 /\ LoopEndedBy("Enter")) =>
    /\ selected_option = (KeyCount("ArrowDown") - KeyCount("ArrowUp")) % N
    /\ pc = "done" =>
         calls = <<(KeyCount("ArrowDown") - KeyCount("ArrowUp")) % N>>

\* C18 witness: on three options Up, another key, Up, Down and Enter have
\* been read, more Ups than Downs, and the func of the last option was
\* called.
C18_Witness ==
  /\ pc = "done"
  /\ N = 3
  /\ Len(reads) = 5
  /\ reads[1].key = "ArrowUp"
  /\ reads[2].key = "Other"
  /\ reads[3].key = "ArrowUp"
  /\ reads[4].key = "ArrowDown"
  /\ reads[5].key = "Enter"
  /\ calls = <<2>>

\* C19: for n >= 1, an ArrowUp followed at once by an ArrowDown, and an
\* ArrowDown followed at once by an ArrowUp, leave the index where it was
\* before the two keys.
C19_UpDownInverse ==
  N >= 1 =>
    \A j \in 1..(Len(reads) - 1) :
      ({reads[j].key, reads[j + 1].key} = {"ArrowUp", "ArrowDown"}) =>
        reads[j + 1].to = reads[j].from

\* C19 witness: on three options Up, Down, Up have been read: Up then Down
\* from index 0 (through the wrap to 2), Down then Up from index 2 (through
\* the wrap to 0).
C19_Witness ==
  /\ N = 3
  /\ Len(reads) = 3
  /\ reads[1] = [key |-> "ArrowUp", from |-> 0, to |-> 2]
  /\ reads[2] = [key |-> "ArrowDown", from |-> 2, to |-> 0]
  /\ reads[3] = [key |-> "ArrowUp", from |-> 0, to |-> 2]

====
